---------------------------- MODULE Spec2Model ----------------------------
(***************************************************************************)
(* A model of eda-analysis.py: the customer-behaviour aggregation          *)
(* (analyze_customer_behavior) and the run of main around it.              *)
(*                                                                         *)
(* A table (a pandas DataFrame) is a record [cols, rows]: cols is the set  *)
(* of its column labels and rows the sequence of its records, each a       *)
(* function from cols to cells.  A cell is <<>> when it is missing (NaN)   *)
(* and <<v>> when it holds v.  Monetary values are integers and the        *)
(* arithmetic is exact; a mean is kept as the pair sum/count.              *)
(***************************************************************************)
EXTENDS Integers, Sequences, FiniteSets, TLC

VARIABLES pc, customers_df, products_df, transactions_df,
          customer_behavior, files, error, loaded, calls

vars == <<pc, customers_df, products_df, transactions_df,
          customer_behavior, files, error, loaded, calls>>

(***************************************************************************)
(* Bounds of the model.                                                    *)
(***************************************************************************)
MaxRows == 3

MaxFileRows == 1

(***************************************************************************)
(* Cells.                                                                  *)
(***************************************************************************)
Null == <<>>

Some(v) == <<v>>

IsNull(cell) == cell = Null

Val(cell) == cell[1]

(***************************************************************************)
(* Sequence helpers.                                                       *)
(***************************************************************************)
RECURSIVE SeqsUpTo(_, _)
SeqsUpTo(S, n) ==
    IF n = 0 THEN {<<>>}
    ELSE LET shorter == SeqsUpTo(S, n - 1)
         IN  shorter \cup {Append(s, x) : s \in {t \in shorter : Len(t) = n - 1}, x \in S}

Range(s) == {s[i] : i \in DOMAIN s}

Min(S) == CHOOSE x \in S : \A y \in S : x <= y

RECURSIVE SortedSeq(_)
SortedSeq(S) ==
    IF S = {} THEN <<>>
    ELSE LET m == Min(S) IN <<m>> \o SortedSeq(S \ {m})

(***************************************************************************)
(* The pieces of DataFrame.groupby(key).agg({...}) that lines 107-111 use. *)
(***************************************************************************)
\* groupby drops the records whose key is missing (dropna=True, the default)
KeyValuesKeepNull(rows, key) ==
    {IF IsNull(rows[i][key]) THEN 0 ELSE Val(rows[i][key]) : i \in DOMAIN rows}

KeyValues(rows, key) ==
    {Val(rows[i][key]) : i \in {j \in DOMAIN rows : ~IsNull(rows[j][key])}}

\* the keys in order of first appearance (what sort=False would give)
RECURSIVE FirstAppearance(_, _, _)
FirstAppearance(rows, key, seen) ==
    IF rows = <<>> THEN <<>>
    ELSE LET c == Head(rows)[key]
         IN  IF IsNull(c) \/ Val(c) \in seen
             THEN FirstAppearance(Tail(rows), key, seen)
             ELSE <<Val(c)>> \o FirstAppearance(Tail(rows), key, seen \cup {Val(c)})

GroupKeysUnsorted(rows, key) == FirstAppearance(rows, key, {})

\* groupby sorts the group keys (sort=True, the default)
GroupKeys(rows, key) == SortedSeq(KeyValues(rows, key))

\* the records of one group, in their input order
GroupRows(rows, key, k) ==
    SelectSeq(rows, LAMBDA r : ~IsNull(r[key]) /\ Val(r[key]) = k)

\* 'count': the number of non-missing cells of the column
Count(group, col) == Len(SelectSeq(group, LAMBDA r : ~IsNull(r[col])))

\* 'sum': missing cells are skipped, the sum of no cell is 0
RECURSIVE Sum(_, _)
Sum(group, col) ==
    IF group = <<>> THEN 0
    ELSE (IF IsNull(Head(group)[col]) THEN 0 ELSE Val(Head(group)[col]))
         + Sum(Tail(group), col)

\* 'mean': the sum of the non-missing cells over their number, NaN for none
Mean(group, col) ==
    IF Count(group, col) = 0 THEN Null
    ELSE Some([num |-> Sum(group, col), den |-> Count(group, col)])

Apply(how, group, col) ==
    CASE how = "count" -> Count(group, col)
      [] how = "sum"   -> Sum(group, col)
      [] how = "mean"  -> Mean(group, col)

\* the aggregation dictionary of lines 107-110, flattened in its order
AggSpecQuantityFirst ==
    << <<"TransactionID", "count">>, <<"Quantity", "sum">>,
       <<"TotalValue", "mean">>, <<"TotalValue", "sum">> >>

AggSpecNoQuantity ==
    << <<"TransactionID", "count">>, <<"TotalValue", "sum">>,
       <<"TotalValue", "mean">>, <<"TransactionID", "count">> >>

AggSpec ==
    << <<"TransactionID", "count">>, <<"TotalValue", "sum">>,
       <<"TotalValue", "mean">>, <<"Quantity", "sum">> >>

\* the labels assigned positionally at line 113
BehaviorColumnsSwapped ==
    <<"CustomerID", "total_spend", "total_transactions", "avg_transaction_value", "total_items">>

BehaviorColumns ==
    <<"CustomerID", "total_transactions", "total_spend", "avg_transaction_value", "total_items">>


(***************************************************************************)
(* Results of a call: the exception it raised, or the table it returned.   *)
(***************************************************************************)
NoTable == [columns |-> <<>>, rows |-> <<>>]

Raise(exc) == [raised |-> exc, value |-> NoTable]

Return(table) == [raised |-> "none", value |-> table]

(***************************************************************************)
(* analyze_customer_behavior, lines 95-115.                                *)
(***************************************************************************)
\* customers_df[['CustomerID', 'Region']], line 102: the labels that are absent
MissingSelected(customers) == {"CustomerID", "Region"} \ customers.cols

\* pd.merge(..., on='CustomerID') refuses keys of a numeric and a string
\* column unless one of the two columns is empty
MergeDtypeClash(left, right) ==
    /\ left.rows # <<>>
    /\ right.rows # <<>>
    /\ left.iddtype # right.iddtype

\* the exception lines 100-104 raise, "none" when the merge goes through
MergeRaises(customers, transactions) ==
    IF MissingSelected(customers) # {} THEN "KeyError"
    ELSE IF "CustomerID" \notin transactions.cols THEN "KeyError"
    ELSE IF MergeDtypeClash(transactions, customers) THEN "ValueError"
    ELSE "none"

\* the inner join of lines 100-104, as the pairs of records it matches (its
\* result is used nowhere)
Merge(customers, transactions) ==
    IF transactions.iddtype # customers.iddtype THEN {}
    ELSE {<<i, j>> \in (DOMAIN transactions.rows) \X (DOMAIN customers.rows) :
             transactions.rows[i]["CustomerID"] = customers.rows[j]["CustomerID"]}

\* the columns the aggregation dictionary names that the table lacks
MissingAggColumns(transactions) ==
    {AggSpec[i][1] : i \in DOMAIN AggSpec} \ transactions.cols

\* one output record of lines 107-111: the key, then one value per entry of
\* the dictionary
AggRow(rows, k) ==
    LET group == GroupRows(rows, "CustomerID", k)
    IN  <<k>> \o [i \in DOMAIN AggSpec |-> Apply(AggSpec[i][2], group, AggSpec[i][1])]

\* line 113: the labels are assigned by position
Labelled(tuple) ==
    [c \in Range(BehaviorColumns) |->
        tuple[CHOOSE i \in DOMAIN BehaviorColumns : BehaviorColumns[i] = c]]

GroupbyAgg(transactions) ==
    LET keys == GroupKeys(transactions.rows, "CustomerID")
    IN  [i \in DOMAIN keys |-> AggRow(transactions.rows, keys[i])]

analyze_customer_behavior(customers, transactions) ==
    IF MergeRaises(customers, transactions) # "none"
    THEN Raise(MergeRaises(customers, transactions))
    ELSE IF MissingAggColumns(transactions) # {} THEN Raise("KeyError")
    ELSE IF Len(AggSpec) + 1 # Len(BehaviorColumns) THEN Raise("ValueError")
    ELSE LET metrics == GroupbyAgg(transactions)
         IN  Return([columns |-> BehaviorColumns,
                     rows |-> [i \in DOMAIN metrics |-> Labelled(metrics[i])]])

(***************************************************************************)
(* The tables the aggregation is called with.                              *)
(***************************************************************************)
TransactionColumns ==
    {"TransactionID", "CustomerID", "ProductID", "Quantity", "TotalValue", "TransactionDate"}

CustomerColumns == {"CustomerID", "Region", "SignupDate"}

ProductColumns == {"ProductID", "Category", "Price"}

Date(y, m) == [year |-> y, month |-> m]

Restrict(r, cols) == [c \in cols |-> r[c]]

CustomerIDValues == {1, 2}

TotalValues == {1, 2}

\* transaction records: the customer, the identifier and the value may be missing
TransactionRows ==
    {[TransactionID |-> t, CustomerID |-> c, ProductID |-> Some(1),
      Quantity |-> Some(3), TotalValue |-> v, TransactionDate |-> Some(Date(2024, 1))] :
        t \in {Null, Some(1)},
        c \in {Null} \cup {Some(k) : k \in CustomerIDValues},
        v \in {Null} \cup {Some(x) : x \in TotalValues}}

Table(cols, rows) == [cols |-> cols, rows |-> rows, iddtype |-> "int64"]

\* the tables with every column, and the tables that lack one column
FullTransactionTables ==
    {Table(TransactionColumns, rows) : rows \in SeqsUpTo(TransactionRows, MaxRows)}

DeficientTransactionTables ==
    UNION {{Table(TransactionColumns \ {col}, rows) :
               rows \in SeqsUpTo({Restrict(r, TransactionColumns \ {col}) :
                                     r \in {x \in TransactionRows : x.TransactionID # Null}}, 1)} :
           col \in TransactionColumns}

CustomerRow(id) ==
    [CustomerID |-> Some(id), Region |-> Some("Asia"), SignupDate |-> Some(Date(2023, 12))]

CustomerRowSeqs == {<<>>, <<CustomerRow(1)>>, <<CustomerRow(2), CustomerRow(1)>>}

\* well-formed Customer tables whose identifiers have the transactions' type
SchemaCustomerTables ==
    {Table(CustomerColumns, rows) : rows \in {<<>>, <<CustomerRow(1)>>}}

\* well-formed Customer tables whose CustomerID column is numeric ("int64"),
\* as the transactions' is, or holds strings ("object": the cell n then
\* stands for the text Cn)
CustomerTables ==
    {[cols |-> CustomerColumns, rows |-> rows, iddtype |-> d] :
        rows \in CustomerRowSeqs, d \in {"int64", "object"}}

EmptyProducts == [cols |-> ProductColumns, rows |-> <<>>, iddtype |-> "int64"]

(***************************************************************************)
(* main, lines 117-140.  The run goes through its steps in program order;  *)
(* pc names the step that is next.                                         *)
(***************************************************************************)
Steps == <<"load", "eda", "chart1", "chart2", "chart3", "analyze", "save", "done">>

StepAfter(step) ==
    Steps[(CHOOSE i \in DOMAIN Steps : Steps[i] = step) + 1]

\* an exception is caught nowhere: the run ends where it is raised
PropagateSwallowed(exc) ==
    /\ error' = exc
    /\ pc' = StepAfter(pc)

Propagate(exc) ==
    /\ error' = exc
    /\ pc' = "failed"

(***************************************************************************)
(* load_data, lines 8-20.                                                  *)
(***************************************************************************)
\* pd.to_datetime on one cell: a missing cell stays missing (NaT)
ParseDate(cell) ==
    IF IsNull(cell) THEN Null
    ELSE CASE Val(cell) = "2023-12-31" -> Some(Date(2023, 12))
           [] Val(cell) = "2024-01-15" -> Some(Date(2024, 1))

Parseable(cell) == IsNull(cell) \/ Val(cell) \in {"2023-12-31", "2024-01-15"}

\* table[col] = pd.to_datetime(table[col]), lines 17-18
ToDatetime(table, col) ==
    [table EXCEPT !.rows = [i \in DOMAIN table.rows |->
                               [table.rows[i] EXCEPT ![col] = ParseDate(table.rows[i][col])]]]

\* the exception the conversion of a column raises, "none" when it succeeds
ToDatetimeRaises(table, col) ==
    IF col \notin table.cols THEN "KeyError"
    ELSE IF \E i \in DOMAIN table.rows : ~Parseable(table.rows[i][col]) THEN "ValueError"
    ELSE "none"

\* the contents Customers.csv, Products.csv and Transactions.csv may have
CustomerFileRow ==
    [CustomerID |-> Some(1), Region |-> Some("Asia"), SignupDate |-> Some("2023-12-31")]

CustomerFiles ==
    UNION {{Table(cols, rows) : rows \in SeqsUpTo({Restrict(CustomerFileRow, cols)}, MaxFileRows)} :
           cols \in {CustomerColumns} \cup {CustomerColumns \ {col} : col \in CustomerColumns}}

ProductFileRow == [ProductID |-> Some(1), Category |-> Some("Books"), Price |-> Some(5)]

ProductFiles ==
    {Table(cols, <<Restrict(ProductFileRow, cols)>>) :
        cols \in {ProductColumns, ProductColumns \ {"Price"}}}

TransactionFileRows ==
    {[TransactionID |-> Some(1), CustomerID |-> c, ProductID |-> Some(1),
      Quantity |-> Some(3), TotalValue |-> Some(2), TransactionDate |-> d] :
        c \in {Null, Some(1)}, d \in {Some("2024-01-15"), Some("n/a")}}

TransactionFiles ==
    UNION {{Table(cols, rows) :
               rows \in SeqsUpTo({Restrict(r, cols) : r \in TransactionFileRows}, MaxFileRows)} :
           cols \in {TransactionColumns} \cup {TransactionColumns \ {col} : col \in TransactionColumns}}

\* lines 12-20: the three files are read and the two date columns converted,
\* or one of the reads or conversions raises
LoadData ==
    /\ pc = "load"
    /\ \/ /\ Propagate("FileNotFoundError")
          /\ UNCHANGED <<customers_df, products_df, transactions_df, loaded>>
       \/ \E c \in CustomerFiles, p \in ProductFiles, t \in TransactionFiles :
             IF ToDatetimeRaises(c, "SignupDate") # "none"
             THEN /\ Propagate(ToDatetimeRaises(c, "SignupDate"))
                  /\ UNCHANGED <<customers_df, products_df, transactions_df, loaded>>
             ELSE IF ToDatetimeRaises(t, "TransactionDate") # "none"
             THEN /\ Propagate(ToDatetimeRaises(t, "TransactionDate"))
                  /\ UNCHANGED <<customers_df, products_df, transactions_df, loaded>>
             ELSE /\ customers_df' = ToDatetime(c, "SignupDate")
                  /\ products_df' = p
                  /\ transactions_df' = ToDatetime(t, "TransactionDate")
                  /\ loaded' = <<customers_df', products_df', transactions_df'>>
                  /\ pc' = "eda"
                  /\ UNCHANGED error
    /\ UNCHANGED <<customer_behavior, files, calls>>

(***************************************************************************)
(* perform_eda, lines 22-59.  The metrics it returns are read by no later  *)
(* step and are left out of the state.                                     *)
(***************************************************************************)
\* table[col]: the cells of a column, one per record
Column(table, col) == [i \in DOMAIN table.rows |-> table.rows[i][col]]

\* table[name] = series: a column is added, or replaced when the label exists
AddColumn(table, name, series) ==
    [cols |-> table.cols \cup {name},
     rows |-> [i \in DOMAIN table.rows |->
                 [c \in table.cols \cup {name} |->
                     IF c = name THEN series[i] ELSE table.rows[i][c]]],
     iddtype |-> table.iddtype]

YearOf(cell) == IF IsNull(cell) THEN Null ELSE Some(Val(cell).year)

MonthOf(cell) == IF IsNull(cell) THEN Null ELSE Some(Val(cell).month)

PeriodOf(cell) ==
    IF IsNull(cell) THEN Null
    ELSE Some([year |-> Val(cell).year, month |-> Val(cell).month, freq |-> "M"])

\* Series.dt.year, Series.dt.month and Series.dt.to_period('M')
DtYear(series) == [i \in DOMAIN series |-> YearOf(series[i])]

DtMonth(series) == [i \in DOMAIN series |-> MonthOf(series[i])]

DtToPeriod(series) == [i \in DOMAIN series |-> PeriodOf(series[i])]

\* lines 49-50
WithYearMonth(transactions) ==
    LET withYear == AddColumn(transactions, "Year", DtYear(Column(transactions, "TransactionDate")))
    IN  AddColumn(withYear, "Month", DtMonth(Column(withYear, "TransactionDate")))

\* the first label lines 37-45 read that the tables lack
EdaMissingBefore(customers, products) ==
    \/ "Region" \notin customers.cols
    \/ "Category" \notin products.cols
    \/ "Price" \notin products.cols

PerformEda ==
    /\ pc = "eda"
    /\ IF EdaMissingBefore(customers_df, products_df)
       THEN /\ Propagate("KeyError")
            /\ UNCHANGED transactions_df
       ELSE /\ transactions_df' = WithYearMonth(transactions_df)
            /\ IF "TotalValue" \notin transactions_df.cols
               THEN Propagate("KeyError")
               ELSE /\ pc' = "chart1"
                    /\ UNCHANGED error
    /\ UNCHANGED <<customers_df, products_df, customer_behavior, files, loaded, calls>>

(***************************************************************************)
(* generate_visualizations, lines 61-93.                                   *)
(***************************************************************************)
Chart(name) == [name |-> name, columns |-> <<>>, rows |-> <<>>]

\* lines 66-74: the style is set and the first chart drawn and saved; the
\* style may be unknown to the plotting library and the write may fail
SaveCustomerDistribution ==
    /\ pc = "chart1"
    /\ \/ /\ files' = Append(files, Chart("customer_distribution.png"))
          /\ pc' = "chart2"
          /\ UNCHANGED error
       \/ /\ Propagate("OSError")
          /\ UNCHANGED files
    /\ UNCHANGED <<customers_df, products_df, transactions_df, customer_behavior, loaded, calls>>

\* lines 77-81
SavePriceDistribution ==
    /\ pc = "chart2"
    /\ \/ /\ files' = Append(files, Chart("price_distribution.png"))
          /\ pc' = "chart3"
          /\ UNCHANGED error
       \/ /\ Propagate("OSError")
          /\ UNCHANGED files
    /\ UNCHANGED <<customers_df, products_df, transactions_df, customer_behavior, loaded, calls>>

\* line 84
WithPeriodOverwritingDate(transactions) ==
    AddColumn(transactions, "TransactionDate",
              DtToPeriod(Column(transactions, "TransactionDate")))

WithPeriod(transactions) ==
    AddColumn(transactions, "YearMonth",
              DtToPeriod(Column(transactions, "TransactionDate")))

\* lines 84-93: the month column is added, then the third chart saved
SaveRevenueTrend ==
    /\ pc = "chart3"
    /\ transactions_df' = WithPeriod(transactions_df)
    /\ \/ /\ files' = Append(files, Chart("revenue_trend.png"))
          /\ pc' = "analyze"
          /\ UNCHANGED error
       \/ /\ Propagate("OSError")
          /\ UNCHANGED files
    /\ UNCHANGED <<customers_df, products_df, customer_behavior, loaded, calls>>

(***************************************************************************)
(* main, lines 129-133: the call of the aggregation and the save.          *)
(***************************************************************************)

\* line 130
AnalyzeCustomerBehavior ==
    /\ pc = "analyze"
    /\ LET r == analyze_customer_behavior(customers_df, transactions_df)
       IN  /\ calls' = Append(calls, r)
           /\ IF r.raised # "none"
              THEN /\ Propagate(r.raised)
                   /\ UNCHANGED customer_behavior
              ELSE /\ customer_behavior' = r.value
                   /\ pc' = "save"
                   /\ UNCHANGED error
    /\ UNCHANGED <<customers_df, products_df, transactions_df, files, loaded>>

\* DataFrame.to_csv(path, index=False): the header line, then the records
CsvFile(table) ==
    [name |-> "customer_behavior_analysis.csv", columns |-> table.columns, rows |-> table.rows]

\* line 133: the file is written, or the write fails
ToCsv ==
    /\ pc = "save"
    /\ \/ /\ files' = Append(files, CsvFile(customer_behavior))
          /\ pc' = "done"
          /\ UNCHANGED error
       \/ /\ Propagate("OSError")
          /\ UNCHANGED files
    /\ UNCHANGED <<customers_df, products_df, transactions_df, customer_behavior, loaded, calls>>

Init ==
    /\ pc = "analyze"
    /\ transactions_df \in FullTransactionTables \cup DeficientTransactionTables
    /\ customers_df \in SchemaCustomerTables
    /\ products_df = EmptyProducts
    /\ loaded = <<customers_df, products_df, transactions_df>>
    /\ customer_behavior = NoTable
    /\ files = <<>>
    /\ error = "none"
    /\ calls = <<>>

Next == AnalyzeCustomerBehavior \/ ToCsv

Spec == Init /\ [][Next]_vars

\* the state before main's first line: nothing is loaded yet
NotLoaded == [cols |-> {}, rows |-> <<>>, iddtype |-> "int64"]

InitMain ==
    /\ pc = "load"
    /\ customers_df = NotLoaded
    /\ products_df = NotLoaded
    /\ transactions_df = NotLoaded
    /\ loaded = <<NotLoaded, NotLoaded, NotLoaded>>
    /\ customer_behavior = NoTable
    /\ files = <<>>
    /\ error = "none"
    /\ calls = <<>>

NextMain ==
    \/ LoadData
    \/ PerformEda
    \/ SaveCustomerDistribution
    \/ SavePriceDistribution
    \/ SaveRevenueTrend
    \/ AnalyzeCustomerBehavior
    \/ ToCsv

SpecMain == InitMain /\ [][NextMain]_vars

(***************************************************************************)
(* The aggregation called twice on one Transaction table, each time with a *)
(* Customer table of the caller's choice.                                  *)
(***************************************************************************)
InitPurity ==
    /\ pc = "analyze"
    /\ transactions_df \in
         {Table(TransactionColumns, rows) : rows \in SeqsUpTo(TransactionRows, MaxRows - 1)}
    /\ customers_df \in CustomerTables
    /\ products_df = EmptyProducts
    /\ loaded = <<customers_df, products_df, transactions_df>>
    /\ customer_behavior = NoTable
    /\ files = <<>>
    /\ error = "none"
    /\ calls = <<>>

FirstCall ==
    /\ calls = <<>>
    /\ calls' = <<analyze_customer_behavior(customers_df, transactions_df)>>
    /\ UNCHANGED <<pc, customers_df, products_df, transactions_df,
                   customer_behavior, files, error, loaded>>

SecondCall ==
    /\ Len(calls) = 1
    /\ \E c \in CustomerTables :
          /\ customers_df' = c
          /\ calls' = Append(calls, analyze_customer_behavior(c, transactions_df))
    /\ UNCHANGED <<pc, products_df, transactions_df, customer_behavior, files, error, loaded>>

NextPurity == FirstCall \/ SecondCall

SpecPurity == InitPurity /\ [][NextPurity]_vars

(***************************************************************************)
(* What the properties below speak of: the last call of the aggregation,   *)
(* its input and the table it returned.                                    *)
(***************************************************************************)
Called == calls # <<>>

LastCall == calls[Len(calls)]

Returned == Called /\ LastCall.raised = "none"

Out == LastCall.value.rows

In == transactions_df.rows

\* the input records of customer k
RecordsOf(k) == {i \in DOMAIN In : In[i]["CustomerID"] = Some(k)}

\* the customer identifiers that occur in the input
InputCustomers == {k \in CustomerIDValues : RecordsOf(k) # {}}

RECURSIVE TotalOver(_, _)
TotalOver(idx, col) ==
    IF idx = {} THEN 0
    ELSE LET i == CHOOSE j \in idx : TRUE
         IN  (IF In[i][col] = Null THEN 0 ELSE In[i][col][1]) + TotalOver(idx \ {i}, col)

\* the input with its records i and i+1 exchanged
Exchanged(i) ==
    [transactions_df EXCEPT !.rows =
        [j \in DOMAIN In |-> IF j = i THEN In[i + 1] ELSE IF j = i + 1 THEN In[i] ELSE In[j]]]

\* C1: the output has exactly one row per distinct non-null CustomerID of
\* the input: as many rows as such identifiers, no identifier in two rows,
\* and nothing for the records whose CustomerID is missing.
C1_OneRowPerCustomer ==
    Returned =>
        /\ Len(Out) = Cardinality(InputCustomers)
        /\ {Out[i]["CustomerID"] : i \in DOMAIN Out} = InputCustomers
        /\ \A i, j \in DOMAIN Out : Out[i]["CustomerID"] = Out[j]["CustomerID"] => i = j

C1_Witness ==
    /\ Returned
    /\ \E i \in DOMAIN In : In[i]["CustomerID"] = Null
    /\ Cardinality(InputCustomers) = 2
    /\ Len(Out) = 2

\* C2: in every output row with total_transactions > 0,
\* avg_transaction_value * total_transactions equals total_spend,
\* also when TransactionID or TotalValue cells are missing.
C2_AvgTimesCountIsSpend ==
    Returned =>
        \A i \in DOMAIN Out :
            Out[i]["total_transactions"] > 0 =>
                /\ Out[i]["avg_transaction_value"] # Null
                /\ Out[i]["avg_transaction_value"][1].num * Out[i]["total_transactions"]
                     = Out[i]["total_spend"] * Out[i]["avg_transaction_value"][1].den

\* C3: total_transactions is the number of input records of the row's
\* customer, whatever their other fields hold.
C3_CountsEveryRecord ==
    Returned =>
        \A i \in DOMAIN Out :
            Out[i]["total_transactions"] = Cardinality(RecordsOf(Out[i]["CustomerID"]))

\* C4: total_spend is the sum of TotalValue over exactly the input records
\* of the row's customer.
C4_SpendIsSumOfOwnRecords ==
    Returned =>
        \A i \in DOMAIN Out :
            Out[i]["total_spend"] = TotalOver(RecordsOf(Out[i]["CustomerID"]), "TotalValue")

C4_Witness ==
    /\ Returned
    /\ Len(In) = 3
    /\ \E i \in DOMAIN Out :
          /\ Out[i]["CustomerID"] = 1
          /\ Cardinality(RecordsOf(1)) = 2
          /\ Out[i]["total_spend"] = 3
    /\ \E j \in RecordsOf(2) : In[j]["TotalValue"] = Some(2)

\* C6: the output rows are in strictly ascending order of CustomerID, and
\* exchanging two neighbouring input records (hence any permutation of the
\* input) leaves the output table as it is.
C6_AscendingAndOrderIndependent ==
    Returned =>
        /\ \A i, j \in DOMAIN Out : i < j => Out[i]["CustomerID"] < Out[j]["CustomerID"]
        /\ \A i \in 1..(Len(In) - 1) :
              analyze_customer_behavior(customers_df, Exchanged(i)) = LastCall

C6_Witness ==
    /\ Returned
    /\ Len(In) >= 2
    /\ In[1]["CustomerID"] = Some(2)
    /\ In[2]["CustomerID"] = Some(1)
    /\ Len(Out) = 2

\* C7: for a Transaction table with all its columns and no rows the call
\* does not fail and returns a table of zero rows with the five columns
\* CustomerID, total_transactions, total_spend, avg_transaction_value,
\* total_items in that order.
C7_EmptyInputEmptyOutput ==
    (Called /\ transactions_df.cols = TransactionColumns /\ In = <<>>) =>
        /\ LastCall.raised = "none"
        /\ LastCall.value.rows = <<>>
        /\ LastCall.value.columns =
             <<"CustomerID", "total_transactions", "total_spend",
               "avg_transaction_value", "total_items">>

C7_Witness ==
    /\ Returned
    /\ transactions_df.cols = TransactionColumns
    /\ In = <<>>
    /\ pc = "save"

\* C9: when the Transaction table lacks CustomerID, TotalValue or Quantity
\* the call raises and returns no table; the exception ends the run: there
\* is no second call and customer_behavior_analysis.csv is not written.
C9_MissingFieldFails ==
    (Called /\ {"CustomerID", "TotalValue", "Quantity"} \ transactions_df.cols # {}) =>
        /\ LastCall.raised # "none"
        /\ LastCall.value = NoTable
        /\ Len(calls) = 1
        /\ pc = "failed"
        /\ error = LastCall.raised
        /\ \A i \in DOMAIN files : files[i].name # "customer_behavior_analysis.csv"

C9_Witness ==
    /\ Called
    /\ "Quantity" \notin transactions_df.cols
    /\ "CustomerID" \in transactions_df.cols
    /\ In # <<>>
    /\ pc = "failed"
    /\ error = "KeyError"

\* C5: with the Transaction table fixed, the call raises for no Customer
\* table and returns the same table for any two of them, with a row for
\* every customer of the input, in the Customer table or not.
C5_IndependentOfCustomers ==
    \A i \in DOMAIN calls :
        /\ calls[i].raised = "none"
        /\ calls[i] = calls[1]
        /\ {calls[i].value.rows[j]["CustomerID"] : j \in DOMAIN calls[i].value.rows}
             = InputCustomers

(***************************************************************************)
(* Properties of a run of main.                                            *)
(***************************************************************************)
ArtifactOrder ==
    <<"customer_distribution.png", "price_distribution.png", "revenue_trend.png",
      "customer_behavior_analysis.csv">>

Written == [i \in DOMAIN files |-> files[i].name]

IsPrefix(s, t) == Len(s) <= Len(t) /\ \A i \in DOMAIN s : s[i] = t[i]

RunOrder == <<"load", "eda", "chart1", "chart2", "chart3", "analyze", "save", "done">>

Position(step) == CHOOSE i \in DOMAIN RunOrder : RunOrder[i] = step

\* what each step has written when the run stands before it
WrittenBefore(step) ==
    CASE step \in {"load", "eda", "chart1"} -> 0
      [] step = "chart2" -> 1
      [] step = "chart3" -> 2
      [] step \in {"analyze", "save"} -> 3
      [] step = "done" -> 4

\* C8: the steps run in the order load, summarize, three charts, aggregate,
\* save; a step that fails ends the run with what was written left in
\* place, nothing runs after it, and the run is done only with all four
\* outputs written, the CSV after the three charts.
C8_FixedOrderAbortOnFailure ==
    /\ [](/\ IsPrefix(Written, ArtifactOrder)
          /\ pc # "failed" => (error = "none" /\ Len(files) = WrittenBefore(pc))
          /\ pc = "failed" => error # "none"
          /\ pc = "done" => Written = ArtifactOrder)
    /\ [][/\ pc \notin {"done", "failed"}
          /\ pc' = "failed" \/ Position(pc') = Position(pc) + 1
          /\ pc' = "failed" => files' = files
          /\ IsPrefix(Written, Written')]_vars

C8_Witness ==
    /\ pc = "failed"
    /\ error = "OSError"
    /\ Written = <<"customer_distribution.png", "price_distribution.png">>
    /\ transactions_df.rows # <<>>

DerivedColumns == transactions_df.cols \ loaded[3].cols

AfterLoad == loaded # <<NotLoaded, NotLoaded, NotLoaded>>

\* the Customer and Product tables are as loaded, and the Transaction table
\* keeps every loaded column and value and has gained only columns of allowed
UnchangedBut(allowed) ==
    /\ customers_df = loaded[1]
    /\ products_df = loaded[2]
    /\ loaded[3].cols \subseteq transactions_df.cols
    /\ DerivedColumns \subseteq allowed
    /\ Len(transactions_df.rows) = Len(loaded[3].rows)
    /\ \A i \in DOMAIN loaded[3].rows : \A c \in loaded[3].cols :
          transactions_df.rows[i][c] = loaded[3].rows[i][c]
    /\ pc \in {"analyze", "save", "done"} => DerivedColumns = allowed
    /\ \A i \in DOMAIN files : Range(files[i].columns) \cap allowed = {}

=============================================================================
